---- MODULE Spec2Model ----
(***************************************************************************)
(* The four-table schema (users, orders, products, orderproducts) declared *)
(* in the notebooks and the Repo operations that run against it.  Every    *)
(* Repo method is one SQL statement followed by session.commit(), issued   *)
(* from a scoped session (with session_pool() as session), so a statement  *)
(* that raises leaves the tables as they were.  The referential actions    *)
(* (ON DELETE CASCADE / SET NULL / RESTRICT), the primary keys and the     *)
(* serial sequences are those the mapped classes declare.  Columns that no  *)
(* constraint and no operation reads (timestamps, description, price) are  *)
(* left out of the rows.                                                   *)
(*                                                                         *)
(* The table variables are the tables as the session's connection sees     *)
(* them; committed is what every other session sees.  The two differ only  *)
(* between session.execute and session.commit.  clients are the sessions    *)
(* of other processes that write to the same database at the same time;    *)
(* while they run, the table variables hold what is committed and each     *)
(* client holds the row its open transaction has written.  metadata is the *)
(* MetaData of the declarative Base: the tables of the classes declared so *)
(* far.                                                                    *)
(***************************************************************************)
EXTENDS Integers, Sequences, FiniteSets, TLC

\* ---------------------------------------------------------------- bounds
MaxUser == 2
MaxOrderId == 2
MaxProductId == 2
MaxQty == 1
MaxBulk == 2
MaxCalls == 2
MaxThreshold == 3
MaxCrowd == 10

\* Optional[...] columns and the `= None` defaults: the absent value.
NoId == 0
NoStr == "NULL"

UserIds == 1..MaxUser
OrderIds == 1..MaxOrderId
ProductIds == 1..MaxProductId
Quantities == 1..MaxQty
Names == {"n1", "n2"}
Handles == {"h1", NoStr}
Langs == {"en"}
Titles == {"t1"}
Schemas == {"ch04", "ch05"}

VARIABLES schema, users, orders, products, orderproducts,
          order_id_seq, product_id_seq, last, session, committed, clients,
          metadata

vars == <<schema, users, orders, products, orderproducts,
          order_id_seq, product_id_seq, last, session, committed, clients, metadata>>

tables == <<users, orders, products, orderproducts>>

\* ------------------------------------------------------------ the schema
\* user_fk used for referrer_id in every chapter.
ReferrerOnDelete_Cascade(s) == "CASCADE"

\* ondelete of users.referrer_id -> users.telegram_id.  Chapter 04 maps
\* referrer_id with the bare user_fk annotation (CASCADE); chapter 05 and 06
\* give the column its own ForeignKey(..., ondelete='SET NULL').
ReferrerOnDelete(s) == IF s = "ch04" THEN "CASCADE" ELSE "SET NULL"

\* ondelete of orders.user_id -> users.telegram_id (user_fk).
OrderUserOnDelete == "CASCADE"

\* ondelete of orderproducts.order_id -> orders.order_id.
OrderProductsOrderOnDelete == "CASCADE"

\* The product link declared with SET NULL in place of RESTRICT.
OrderProductsProductOnDelete_SetNull == "SET NULL"

\* ondelete of orderproducts.product_id -> products.product_id.
OrderProductsProductOnDelete == "RESTRICT"

User(t, f, l, u, r) ==
    [telegram_id |-> t, full_name |-> f, user_name |-> u,
     language_code |-> l, referrer_id |-> r]

Order(o, u) == [order_id |-> o, user_id |-> u]

Product(p, t) == [product_id |-> p, title |-> t]

OrderProducts(o, p, q) == [order_id |-> o, product_id |-> p, quantity |-> q]

UserPks(us) == {x.telegram_id : x \in us}
OrderPks(os) == {x.order_id : x \in os}
ProductPks(ps) == {x.product_id : x \in ps}

\* ------------------------------------------------ the mapped classes
\* Names are spelled out character by character.  The classes of chapter 02
\* and 03 carry plural names, those of chapter 04, 05 and 06 singular ones.
Chapters == {"ch02", "ch03", "ch04", "ch05", "ch06"}

ClassNames(s) ==
    IF s \in {"ch02", "ch03"}
    THEN {<<"U", "s", "e", "r", "s">>, <<"O", "r", "d", "e", "r", "s">>,
          <<"P", "r", "o", "d", "u", "c", "t", "s">>,
          <<"O", "r", "d", "e", "r", "P", "r", "o", "d", "u", "c", "t", "s">>}
    ELSE {<<"U", "s", "e", "r">>, <<"O", "r", "d", "e", "r">>,
          <<"P", "r", "o", "d", "u", "c", "t">>,
          <<"O", "r", "d", "e", "r", "P", "r", "o", "d", "u", "c", "t", "s">>}

\* str.lower() on the letters class names begin words with.
str_lower(str) ==
    [i \in 1..Len(str) |->
       CASE str[i] = "U" -> "u"
         [] str[i] = "O" -> "o"
         [] str[i] = "P" -> "p"
         [] OTHER -> str[i]]

\* TableNameMixin.__tablename__: cls.__name__.lower() + "s", and in chapter
\* 03 cls.__name__.lower().
TableNameMixin(s, cls) ==
    IF s = "ch03" THEN str_lower(cls) ELSE str_lower(cls) \o <<"s">>

\* The table name of a class: chapter 02 gives Users an explicit
\* __tablename__ = "users" and no mixin; every other class takes the mixin's.
Tablename(s, cls) ==
    IF s = "ch02" /\ cls = <<"U", "s", "e", "r", "s">>
    THEN <<"u", "s", "e", "r", "s">>
    ELSE TableNameMixin(s, cls)

\* The "table.column" strings of the ForeignKey(...) a class declares:
\* user_fk in the user and order classes, the two keys of OrderProducts.
ForeignKeys(s, cls) ==
    IF cls = <<"O", "r", "d", "e", "r", "P", "r", "o", "d", "u", "c", "t", "s">>
    THEN {<<"o", "r", "d", "e", "r", "s", ".", "o", "r", "d", "e", "r", "_", "i", "d">>,
          <<"p", "r", "o", "d", "u", "c", "t", "s", ".", "p", "r", "o", "d", "u", "c", "t", "_", "i", "d">>}
    ELSE IF cls \in {<<"P", "r", "o", "d", "u", "c", "t", "s">>, <<"P", "r", "o", "d", "u", "c", "t">>}
    THEN {}
    ELSE {<<"u", "s", "e", "r", "s", ".", "t", "e", "l", "e", "g", "r", "a", "m", "_", "i", "d">>}

\* The table a ForeignKey string names: what stands before the dot.
ReferredTable(fk) ==
    LET dot == CHOOSE i \in 1..Len(fk) :
                  fk[i] = "." /\ \A j \in 1..(i - 1) : fk[j] # "."
    IN SubSeq(fk, 1, dot - 1)

\* The Table a class statement adds to Base.metadata.
Table(s, cls) ==
    [class |-> cls, name |-> Tablename(s, cls), foreign_keys |-> ForeignKeys(s, cls)]

\* The foreign keys of the tables in md that name no table of md.
Unresolved(md) ==
    {fk \in UNION {t.foreign_keys : t \in md} :
       ReferredTable(fk) \notin {t.name : t \in md}}

\* ------------------------------------------------- referential actions
\* Rows of users removed by DELETE of the rows with key in D: D itself and,
\* when the referrer link cascades, every row that refers to a removed row.
RECURSIVE DeletedUsers(_, _, _)
DeletedUsers(s, us, D) ==
    LET more == IF ReferrerOnDelete(s) = "CASCADE"
                THEN {x.telegram_id : x \in {y \in us : y.referrer_id \in D}}
                ELSE {}
    IN IF more \subseteq D THEN D ELSE DeletedUsers(s, us, D \cup more)

\* The delete without the SET NULL action on the rows that stay.
UsersAfterDelete_NoSetNull(s, us, D0) ==
    {x \in us : x.telegram_id \notin DeletedUsers(s, us, D0 \cap UserPks(us))}

\* The users table after the rows with key in D0 are deleted.
UsersAfterDelete(s, us, D0) ==
    LET D == DeletedUsers(s, us, D0 \cap UserPks(us))
        kept == {x \in us : x.telegram_id \notin D}
    IN {IF x.referrer_id \in D THEN [x EXCEPT !.referrer_id = NoId] ELSE x
        : x \in kept}

\* orders.user_id without its cascade.
OrdersAfterUserDelete_NoCascade(os, D) == os

\* The orders table after the users with key in D are gone.
OrdersAfterUserDelete(os, D) ==
    IF OrderUserOnDelete = "CASCADE"
    THEN {x \in os : x.user_id \notin D}
    ELSE os

\* orderproducts.order_id without its cascade.
OrderProductsAfterOrderDelete_NoCascade(ops, O) == ops

\* The orderproducts table after the orders with key in O are gone.
OrderProductsAfterOrderDelete(ops, O) ==
    IF OrderProductsOrderOnDelete = "CASCADE"
    THEN {x \in ops : x.order_id \notin O}
    ELSE ops

NoEffect == [updated |-> {}, users |-> {}, nulled |-> {}, orders |-> {}, lines |-> {}]

\* What the caller of the last Repo call saw: the method, its key argument,
\* "ok" or the error raised, and the rows returned.  effect lists the keys of
\* the rows the statement updated in place and of those its referential
\* actions removed or nulled (a record of the step, read by no operation).
Outcome(op, arg, status, ret, effect) ==
    [op |-> op, arg |-> arg, status |-> status, ret |-> ret, effect |-> effect]

\* No scoped block is entered: the sessionmaker has handed out no Session.
\* pc is the block's position, calls the Repo calls it has made and txs the
\* transactions its Session has begun.
Closed == [pc |-> "closed", calls |-> 0, txs |-> 0]

\* The sessions of two processes that share the database, and a session that
\* has sent no statement.
Sessions == {"s1", "s2"}

NoRow == User(NoId, NoStr, NoStr, NoStr, NoId)

Idle == [pc |-> "idle", call |-> NoRow, over |-> {}, write |-> {},
         status |-> "none", waited |-> FALSE]

Init ==
    /\ schema \in Schemas
    /\ users = {}
    /\ orders = {}
    /\ products = {}
    /\ orderproducts = {}
    /\ order_id_seq = 1
    /\ product_id_seq = 1
    /\ last = Outcome("init", NoId, "ok", {}, NoEffect)
    /\ session = Closed
    /\ committed = tables
    /\ clients = [s \in Sessions |-> Idle]
    /\ metadata = {Table(schema, cls) : cls \in ClassNames(schema)}

\* A statement that raised: the exception leaves the scoped session before
\* commit() and nothing the statement did is kept.
Raise(op, arg, err) ==
    /\ last' = Outcome(op, arg, err, {}, NoEffect)
    /\ UNCHANGED <<users, orders, products, orderproducts>>

\* referrer_id without its foreign key.
ReferrerOk_Unchecked(us, t, r) == TRUE

\* The foreign key users.referrer_id -> users.telegram_id, checked at the end
\* of the statement (the row itself is then present).
ReferrerOk(us, t, r) == r = NoId \/ r \in UserPks(us) \cup {t}

\* ---------------------------------------------------------------- users
\* INSERT INTO users ... RETURNING users.* ; commit.
add_user(t, f, l, u, r) ==
    /\ IF t \in UserPks(users)
       THEN Raise("add_user", t, "UniqueViolation")
       ELSE IF ~ReferrerOk(users, t, r)
       THEN Raise("add_user", t, "ForeignKeyViolation")
       ELSE /\ users' = users \cup {User(t, f, l, u, r)}
            /\ last' = Outcome("add_user", t, "ok", {User(t, f, l, u, r)}, NoEffect)
            /\ UNCHANGED <<orders, products, orderproducts>>
    /\ UNCHANGED <<schema, order_id_seq, product_id_seq>>

\* ON CONFLICT ... DO UPDATE with full_name left out of set_.
OnConflictDoUpdate_HandleOnly(x, f, u) == [x EXCEPT !.user_name = u]

\* The row an ON CONFLICT (telegram_id) DO UPDATE SET user_name, full_name
\* leaves in place of the conflicting row x.
OnConflictDoUpdate(x, f, u) == [x EXCEPT !.user_name = u, !.full_name = f]

\* The upsert with every column of the proposed row in set_.
add_user_upsert_EveryColumn(t, f, l, u, r) ==
    /\ IF ~ReferrerOk(users, t, r)
       THEN Raise("add_user_upsert", t, "ForeignKeyViolation")
       ELSE /\ users' = {x \in users : x.telegram_id # t} \cup {User(t, f, l, u, r)}
            /\ last' = Outcome("add_user_upsert", t, "ok", {User(t, f, l, u, r)},
                               [NoEffect EXCEPT !.updated = {t} \cap UserPks(users)])
            /\ UNCHANGED <<orders, products, orderproducts>>
    /\ UNCHANGED <<schema, order_id_seq, product_id_seq>>

\* INSERT INTO users ... ON CONFLICT (telegram_id) DO UPDATE SET user_name,
\* full_name RETURNING users.* ; commit.  On conflict the proposed row is not
\* inserted, so its referrer_id is never checked.
add_user_upsert(t, f, l, u, r) ==
    /\ IF t \in UserPks(users)
       THEN LET old == {x \in users : x.telegram_id = t}
                new == {OnConflictDoUpdate(x, f, u) : x \in old}
            IN /\ users' = (users \ old) \cup new
               /\ last' = Outcome("add_user_upsert", t, "ok", new,
                                  [NoEffect EXCEPT !.updated = {t}])
               /\ UNCHANGED <<orders, products, orderproducts>>
       ELSE IF ~ReferrerOk(users, t, r)
       THEN Raise("add_user_upsert", t, "ForeignKeyViolation")
       ELSE /\ users' = users \cup {User(t, f, l, u, r)}
            /\ last' = Outcome("add_user_upsert", t, "ok",
                               {User(t, f, l, u, r)}, NoEffect)
            /\ UNCHANGED <<orders, products, orderproducts>>
    /\ UNCHANGED <<schema, order_id_seq, product_id_seq>>

\* The update with the referrer looked up before the statement is sent.
set_new_referrer_CheckedFirst(user_id, referrer_id) ==
    /\ LET old == {x \in users : x.telegram_id = user_id}
           new == {[x EXCEPT !.referrer_id = referrer_id] : x \in old}
       IN IF ~ReferrerOk(users, user_id, referrer_id)
          THEN Raise("set_new_referrer", user_id, "ForeignKeyViolation")
          ELSE /\ users' = (users \ old) \cup new
               /\ last' = Outcome("set_new_referrer", user_id, "ok", new,
                                  [NoEffect EXCEPT !.updated = UserPks(old)])
               /\ UNCHANGED <<orders, products, orderproducts>>
    /\ UNCHANGED <<schema, order_id_seq, product_id_seq>>

\* UPDATE users SET referrer_id = :referrer_id WHERE telegram_id = :user_id
\* RETURNING users.* ; commit.  No row matching is no error: first() is None.
set_new_referrer(user_id, referrer_id) ==
    /\ LET old == {x \in users : x.telegram_id = user_id}
           new == {[x EXCEPT !.referrer_id = referrer_id] : x \in old}
       IN IF old # {} /\ ~ReferrerOk(users, user_id, referrer_id)
          THEN Raise("set_new_referrer", user_id, "ForeignKeyViolation")
          ELSE /\ users' = (users \ old) \cup new
               /\ last' = Outcome("set_new_referrer", user_id, "ok", new,
                                  [NoEffect EXCEPT !.updated = UserPks(old)])
               /\ UNCHANGED <<orders, products, orderproducts>>
    /\ UNCHANGED <<schema, order_id_seq, product_id_seq>>

\* DELETE FROM users WHERE telegram_id IN D ; commit, with the referential
\* actions of the schema in force.
DeleteUsers(op, arg, D0) ==
    LET D == DeletedUsers(schema, users, D0 \cap UserPks(users))
        users1 == UsersAfterDelete(schema, users, D0)
        orders1 == OrdersAfterUserDelete(orders, D)
        lines1 == OrderProductsAfterOrderDelete(orderproducts,
                                                OrderPks(orders) \ OrderPks(orders1))
    IN /\ users' = users1
       /\ orders' = orders1
       /\ orderproducts' = lines1
       /\ last' = Outcome(op, arg, "ok", {},
                    [updated |-> {},
                     users |-> UserPks(users) \ UserPks(users1),
                     nulled |-> {x.telegram_id : x \in users1 \ users},
                     orders |-> OrderPks(orders) \ OrderPks(orders1),
                     lines |-> {<<x.order_id, x.product_id>> : x \in orderproducts \ lines1}])
       /\ UNCHANGED <<schema, products, order_id_seq, product_id_seq>>

\* The delete as session.delete(session.get(User, user_id)), which raises
\* when the row is not there.
delete_user_by_id_GetThenDelete(user_id) ==
    IF user_id \in UserPks(users)
    THEN DeleteUsers("delete_user_by_id", user_id, {user_id})
    ELSE /\ Raise("delete_user_by_id", user_id, "UnmappedInstanceError")
         /\ UNCHANGED <<schema, order_id_seq, product_id_seq>>

\* DELETE FROM users WHERE telegram_id = :user_id ; commit.
delete_user_by_id(user_id) == DeleteUsers("delete_user_by_id", user_id, {user_id})

\* DELETE FROM users ; commit.
cleanup_users == DeleteUsers("cleanup_users", NoId, UserPks(users))

\* --------------------------------------------------------------- orders
\* .returning(Order) gives the row, .returning(Order.order_id) the key.
Returning(x, cols) == IF cols = "order_id" THEN x.order_id ELSE x

\* The insert into an orders table whose user_id has no foreign key.
InsertOrder_Unchecked(op, user_id, cols) ==
    /\ order_id_seq <= MaxOrderId
    /\ order_id_seq' = order_id_seq + 1
    /\ orders' = orders \cup {Order(order_id_seq, user_id)}
    /\ last' = Outcome(op, user_id, "ok",
                       {Returning(Order(order_id_seq, user_id), cols)}, NoEffect)
    /\ UNCHANGED <<schema, users, products, orderproducts, product_id_seq>>

\* INSERT INTO orders (user_id) VALUES (:user_id) RETURNING ... ; commit.  The
\* serial order_id is drawn from the sequence before the foreign key is
\* checked, and a sequence value is never given back.
InsertOrder(op, user_id, cols) ==
    /\ order_id_seq <= MaxOrderId
    /\ order_id_seq' = order_id_seq + 1
    /\ IF user_id \notin UserPks(users)
       THEN Raise(op, user_id, "ForeignKeyViolation")
       ELSE /\ orders' = orders \cup {Order(order_id_seq, user_id)}
            /\ last' = Outcome(op, user_id, "ok",
                               {Returning(Order(order_id_seq, user_id), cols)}, NoEffect)
            /\ UNCHANGED <<users, products, orderproducts>>
    /\ UNCHANGED <<schema, product_id_seq>>

\* Repo.add_order returns the Order.
add_order(user_id) == InsertOrder("add_order", user_id, "Order")

\* Repo.create_new_order_for_user returns the new order_id.
create_new_order_for_user(user_id) ==
    InsertOrder("create_new_order_for_user", user_id, "order_id")

\* DELETE FROM orders WHERE order_id = :order_id ; commit.  No Repo method
\* issues it; it is the statement the ondelete of orderproducts.order_id
\* answers to.
delete_order(order_id) ==
    LET orders1 == {x \in orders : x.order_id # order_id}
        lines1 == OrderProductsAfterOrderDelete(orderproducts,
                                                OrderPks(orders) \ OrderPks(orders1))
    IN /\ orders' = orders1
       /\ orderproducts' = lines1
       /\ last' = Outcome("delete_order", order_id, "ok", {},
                    [NoEffect EXCEPT
                       !.orders = OrderPks(orders) \ OrderPks(orders1),
                       !.lines = {<<x.order_id, x.product_id>> :
                                    x \in orderproducts \ lines1}])
       /\ UNCHANGED <<schema, users, products, order_id_seq, product_id_seq>>

\* ------------------------------------------------------------- products
\* INSERT INTO products (title, ...) VALUES (...) RETURNING products.* ; commit.
add_product(title) ==
    /\ product_id_seq <= MaxProductId
    /\ product_id_seq' = product_id_seq + 1
    /\ products' = products \cup {Product(product_id_seq, title)}
    /\ last' = Outcome("add_product", product_id_seq, "ok",
                       {Product(product_id_seq, title)}, NoEffect)
    /\ UNCHANGED <<schema, users, orders, orderproducts, order_id_seq>>

\* The rows a batched insert of the titles ts writes, numbered from the
\* sequence value n.
BulkRows(ts, n) == {Product(n + i - 1, ts[i]) : i \in 1..Len(ts)}

\* The first element of ts that breaks title NOT NULL, 0 when none does.
FirstNull(ts) ==
    IF \E i \in 1..Len(ts) : ts[i] = NoStr
    THEN CHOOSE i \in 1..Len(ts) :
            /\ ts[i] = NoStr
            /\ \A j \in 1..(i - 1) : ts[j] # NoStr
    ELSE 0

\* The list inserted and committed one row at a time: the rows before the
\* first bad one stay.
add_bulk_products_RowByRow(ts) ==
    /\ product_id_seq + Len(ts) <= MaxProductId + 1
    /\ IF FirstNull(ts) # 0
       THEN /\ product_id_seq' = product_id_seq + FirstNull(ts)
            /\ products' = products \cup
                  BulkRows(SubSeq(ts, 1, FirstNull(ts) - 1), product_id_seq)
            /\ last' = Outcome("add_bulk_products", product_id_seq,
                               "NotNullViolation", {}, NoEffect)
            /\ UNCHANGED <<users, orders, orderproducts>>
       ELSE /\ product_id_seq' = product_id_seq + Len(ts)
            /\ products' = products \cup BulkRows(ts, product_id_seq)
            /\ last' = Outcome("add_bulk_products", product_id_seq, "ok",
                               BulkRows(ts, product_id_seq), NoEffect)
            /\ UNCHANGED <<users, orders, orderproducts>>
    /\ UNCHANGED <<schema, order_id_seq>>

\* One INSERT INTO products for the whole list, RETURNING products.* ; commit.
add_bulk_products(ts) ==
    /\ product_id_seq + Len(ts) <= MaxProductId + 1
    /\ IF FirstNull(ts) # 0
       THEN /\ product_id_seq' = product_id_seq + FirstNull(ts)
            /\ Raise("add_bulk_products", product_id_seq, "NotNullViolation")
       ELSE /\ product_id_seq' = product_id_seq + Len(ts)
            /\ products' = products \cup BulkRows(ts, product_id_seq)
            /\ last' = Outcome("add_bulk_products", product_id_seq, "ok",
                               BulkRows(ts, product_id_seq), NoEffect)
            /\ UNCHANGED <<users, orders, orderproducts>>
    /\ UNCHANGED <<schema, order_id_seq>>

\* DELETE FROM products WHERE product_id = :product_id ; commit.  No Repo
\* method issues it; it is the statement the ondelete of
\* orderproducts.product_id answers to.
delete_product(product_id) ==
    /\ IF /\ OrderProductsProductOnDelete = "RESTRICT"
          /\ product_id \in ProductPks(products)
          /\ \E x \in orderproducts : x.product_id = product_id
       THEN Raise("delete_product", product_id, "ForeignKeyViolation")
       ELSE /\ products' = {x \in products : x.product_id # product_id}
            /\ last' = Outcome("delete_product", product_id, "ok", {}, NoEffect)
            /\ UNCHANGED <<users, orders, orderproducts>>
    /\ UNCHANGED <<schema, order_id_seq, product_id_seq>>

\* ----------------------------------------------------------- line items
LineKeys(ops) == {<<x.order_id, x.product_id>> : x \in ops}

\* The key checked against the stored rows only, row by row of the list.
LineConflict_StoredOnly(ops, order_id, ps) ==
    \E i \in 1..Len(ps) : <<order_id, ps[i].product_id>> \in LineKeys(ops)

\* The composite primary key (order_id, product_id): the list ps of
\* [product_id, quantity] repeats a product or names one the order has.
LineConflict(ops, order_id, ps) ==
    \/ \E i \in 1..Len(ps) : <<order_id, ps[i].product_id>> \in LineKeys(ops)
    \/ \E i, j \in 1..Len(ps) : i # j /\ ps[i].product_id = ps[j].product_id

\* Both foreign keys of every row of the list.
LineRefsOk(order_id, ps) ==
    /\ order_id \in OrderPks(orders)
    /\ \A i \in 1..Len(ps) : ps[i].product_id \in ProductPks(products)

\* INSERT INTO orderproducts (order_id, product_id, quantity) for every
\* element of ps in one statement ; commit.
InsertLines(op, order_id, ps) ==
    /\ IF LineConflict(orderproducts, order_id, ps)
       THEN Raise(op, order_id, "UniqueViolation")
       ELSE IF ~LineRefsOk(order_id, ps)
       THEN Raise(op, order_id, "ForeignKeyViolation")
       ELSE /\ orderproducts' = orderproducts \cup
                  {OrderProducts(order_id, ps[i].product_id, ps[i].quantity) :
                     i \in 1..Len(ps)}
            /\ last' = Outcome(op, order_id, "ok", {}, NoEffect)
            /\ UNCHANGED <<users, orders, products>>
    /\ UNCHANGED <<schema, order_id_seq, product_id_seq>>

add_order_product(order_id, product_id, quantity) ==
    InsertLines("add_order_product", order_id,
                <<[product_id |-> product_id, quantity |-> quantity]>>)

bulk_insert_products_into_order_id(order_id, ps) ==
    InsertLines("bulk_insert_products_into_order_id", order_id, ps)

\* The non-empty lists of at most MaxBulk elements of S.
Lists(S) == UNION {[1..n -> S] : n \in 1..MaxBulk}

LineInputs == [product_id : ProductIds, quantity : Quantities]

\* -------------------------------------------------------------- queries
\* A SELECT: the caller gets its rows and nothing is written.  A result is
\* the set of its rows; no statement here has an ORDER BY.
Read(op, arg, rows) ==
    /\ last' = Outcome(op, arg, "ok", rows, NoEffect)
    /\ UNCHANGED <<schema, users, orders, products, orderproducts,
                   order_id_seq, product_id_seq>>

\* result.scalars().first(): the first row, None (no row) when there is none.
ScalarsFirst(rows) == IF rows = {} THEN {} ELSE {CHOOSE x \in rows : TRUE}

\* The lookup ending in scalars().one(), which raises when no row matches.
get_user_by_id_One(telegram_id) ==
    LET rows == {x \in users : x.telegram_id = telegram_id}
    IN IF rows = {}
       THEN /\ Raise("get_user_by_id", telegram_id, "NoResultFound")
            /\ UNCHANGED <<schema, order_id_seq, product_id_seq>>
       ELSE Read("get_user_by_id", telegram_id, rows)

\* SELECT users.* FROM users WHERE users.telegram_id = :telegram_id, first().
get_user_by_id(telegram_id) ==
    Read("get_user_by_id", telegram_id,
         ScalarsFirst({x \in users : x.telegram_id = telegram_id}))

\* SELECT users.* FROM users, scalars().all().
get_all_users == Read("get_all_users", NoId, users)

\* The relationship attributes, each loaded by its own SELECT when first
\* read: User.orders, Order.products and OrderProducts.product.
User_orders(u) == {o \in orders : o.user_id = u.telegram_id}
Order_products(o) == {l \in orderproducts : l.order_id = o.order_id}
OrderProducts_product(l) == {p \in products : p.product_id = l.product_id}

\* A row of select(Product, Order, User.user_name, OrderProducts.quantity).
JoinRow(p, o, u, l) == <<p, o, u.user_name, l.quantity>>

\* for order in user.orders: for line in order.products: line.product, for
\* the user with the given telegram_id.
LazyTraversal(telegram_id) ==
    UNION {UNION {UNION {{JoinRow(p, o, u, l) : p \in OrderProducts_product(l)}
                         : l \in Order_products(o)}
                  : o \in User_orders(u)}
           : u \in {x \in users : x.telegram_id = telegram_id}}

\* The relationship joins with the join to products left without its ON.
SelectRelationships_CrossProduct(telegram_id) ==
    {JoinRow(p, o, u, l) :
       <<u, o, l, p>> \in {z \in users \X orders \X orderproducts \X products :
                             /\ z[1].telegram_id = z[2].user_id
                             /\ z[2].order_id = z[3].order_id
                             /\ z[1].telegram_id = telegram_id}}

\* FROM users JOIN orders ON users.telegram_id = orders.user_id
\*            JOIN orderproducts ON orders.order_id = orderproducts.order_id
\*            JOIN products ON products.product_id = orderproducts.product_id
\* WHERE users.telegram_id = :telegram_id
SelectRelationships(telegram_id) ==
    LET j1 == {z \in users \X orders : z[1].telegram_id = z[2].user_id}
        j2 == {z \in j1 \X orderproducts : z[1][2].order_id = z[2].order_id}
        j3 == {z \in j2 \X products : z[2].product_id = z[1][2].product_id}
    IN {JoinRow(z[2], z[1][1][2], z[1][1][1], z[1][2]) :
          z \in {y \in j3 : y[1][1][1].telegram_id = telegram_id}}

\* The explicit joins with the WHERE on the user left out.
SelectNoRelationships_AllUsers(telegram_id) ==
    {JoinRow(p, o, u, l) :
       <<p, l, o, u>> \in {z \in products \X orderproducts \X orders \X users :
                             /\ z[1].product_id = z[2].product_id
                             /\ z[3].order_id = z[2].order_id
                             /\ z[4].telegram_id = z[3].user_id}}

\* FROM products JOIN orderproducts ON products.product_id = orderproducts.product_id
\*               JOIN orders ON orders.order_id = orderproducts.order_id
\*               JOIN users ON users.telegram_id = orders.user_id
\* WHERE users.telegram_id = :telegram_id
SelectNoRelationships(telegram_id) ==
    LET k1 == {z \in products \X orderproducts : z[1].product_id = z[2].product_id}
        k2 == {z \in k1 \X orders : z[2].order_id = z[1][2].order_id}
        k3 == {z \in k2 \X users : z[2].telegram_id = z[1][2].user_id}
    IN {JoinRow(z[1][1][1], z[1][2], z[2], z[1][1][2]) :
          z \in {y \in k3 : y[2].telegram_id = telegram_id}}

get_all_user_orders_relationships(telegram_id) ==
    Read("get_all_user_orders_relationships", telegram_id,
         SelectRelationships(telegram_id))

get_all_user_orders_no_relationships(telegram_id) ==
    Read("get_all_user_orders_no_relationships", telegram_id,
         SelectNoRelationships(telegram_id))

\* FROM orderproducts JOIN orders ON orders.order_id = orderproducts.order_id
\*                    JOIN users ON users.telegram_id = orders.user_id
LinesJoinUsers ==
    LET j1 == {z \in orderproducts \X orders : z[2].order_id = z[1].order_id}
    IN {z \in j1 \X users : z[2].telegram_id = z[1][2].user_id}

\* func.sum(OrderProducts.quantity) over the joined rows J of one group.
RECURSIVE SumQuantity(_)
SumQuantity(J) ==
    IF J = {} THEN 0
    ELSE LET z == CHOOSE y \in J : TRUE
         IN z[1][1].quantity + SumQuantity(J \ {z})

\* GROUP BY users.telegram_id over the joined rows J: one row per group with
\* the labels quantity and name; group is the key that tells the rows apart.
GroupByUser(J) ==
    {[group |-> t,
      quantity |-> SumQuantity({z \in J : z[2].telegram_id = t}),
      name |-> (CHOOSE z \in J : z[2].telegram_id = t)[2].full_name]
     : t \in {z[2].telegram_id : z \in J}}

CountOfProductsByUser == GroupByUser(LinesJoinUsers)

\* The threshold as HAVING sum >= :greater_than.
CountOfProductsGreaterThanX_AtLeast(greater_than) ==
    {r \in GroupByUser(LinesJoinUsers) : r.quantity >= greater_than}

\* The threshold as WHERE orderproducts.quantity > :greater_than, before the
\* grouping.
CountOfProductsGreaterThanX_Where(greater_than) ==
    GroupByUser({z \in LinesJoinUsers : z[1][1].quantity > greater_than})

\* ... GROUP BY users.telegram_id HAVING sum(orderproducts.quantity) > :greater_than
CountOfProductsGreaterThanX(greater_than) ==
    {r \in GroupByUser(LinesJoinUsers) : r.quantity > greater_than}

get_count_of_products_by_user ==
    Read("get_count_of_products_by_user", NoId, CountOfProductsByUser)

get_count_of_products_greater_than_x_by_user(greater_than) ==
    Read("get_count_of_products_greater_than_x_by_user", greater_than,
         CountOfProductsGreaterThanX(greater_than))

Thresholds == 0..MaxThreshold

\* ---------------------------------------------- the asynchronous Repo
\* Chapter 06: the same three statements sent through an AsyncSession.  Each
\* await hands control to the event loop, which runs no other task of the
\* notebook on this session; execute buffers the rows of the result, so
\* scalars() after the awaited commit reads what the statement returned.

\* The insert sent without .returning(User): scalars().first() has no row.
add_user_async_NoReturning(t, f, l, u, r) ==
    /\ IF t \in UserPks(users)
       THEN Raise("add_user", t, "UniqueViolation")
       ELSE IF ~ReferrerOk(users, t, r)
       THEN Raise("add_user", t, "ForeignKeyViolation")
       ELSE /\ users' = users \cup {User(t, f, l, u, r)}
            /\ last' = Outcome("add_user", t, "ok", {}, NoEffect)
            /\ UNCHANGED <<orders, products, orderproducts>>
    /\ UNCHANGED <<schema, order_id_seq, product_id_seq>>

\* await session.execute(insert(User).values(...).returning(User)) ;
\* await session.commit() ; result.scalars().first().
add_user_async(t, f, l, u, r) ==
    LET row == User(t, f, l, u, r)
        stored == {x \in users : x.telegram_id = t}
    IN /\ IF stored # {}
          THEN Raise("add_user", t, "UniqueViolation")
          ELSE IF r # NoId /\ r # t /\ r \notin UserPks(users)
          THEN Raise("add_user", t, "ForeignKeyViolation")
          ELSE /\ users' = users \cup {row}
               /\ last' = Outcome("add_user", t, "ok", ScalarsFirst({row}), NoEffect)
               /\ UNCHANGED <<orders, products, orderproducts>>
       /\ UNCHANGED <<schema, order_id_seq, product_id_seq>>

\* await session.execute(select(User)) ; result.scalars().all().
get_all_users_async == Read("get_all_users", NoId, {x \in users : TRUE})

\* await session.execute(delete(User)) ; await session.commit().
cleanup_users_async ==
    DeleteUsers("cleanup_users", NoId, {x.telegram_id : x \in users})

\* ---------------------------------------------------- counts of orders
\* session.scalar(stmt): the first column of the first row, None (no value)
\* when the statement gives no row.
Scalar(rows) == IF rows = {} THEN {} ELSE {(CHOOSE x \in rows : TRUE)[1]}

\* SELECT count(orders.order_id) FROM orders WHERE orders.user_id =
\* :telegram_id: an aggregate without GROUP BY gives exactly one row.
UserTotalNumberOfOrders(telegram_id) ==
    {<<Cardinality({o \in orders : o.user_id = telegram_id})>>}

\* The join of orders and users left without its ON.
OrdersJoinUsers_Cross == orders \X users

\* FROM orders JOIN users ON users.telegram_id = orders.user_id
OrdersJoinUsers == {z \in orders \X users : z[2].telegram_id = z[1].user_id}

\* SELECT count(orders.order_id), users.telegram_id ... GROUP BY
\* users.telegram_id: one row <<count, telegram_id>> per user in the join.
TotalNumberOfOrdersByUser ==
    {<<Cardinality({z \in OrdersJoinUsers : z[2].telegram_id = t}), t>> :
       t \in {z[2].telegram_id : z \in OrdersJoinUsers}}

get_user_total_number_of_orders(telegram_id) ==
    Read("get_user_total_number_of_orders", telegram_id,
         Scalar(UserTotalNumberOfOrders(telegram_id)))

get_total_number_of_orders_by_user ==
    Read("get_total_number_of_orders_by_user", NoId, TotalNumberOfOrdersByUser)

\* ------------------------------------------------------- invited users
\* The join with the two aliases in each other's place in the ON clause.
SelectAllInvitedUsers_Swapped ==
    {[referral |-> z[2].telegram_id,
      parent_name |-> z[1].full_name,
      referral_name |-> z[2].full_name]
     : z \in {y \in users \X users : y[1].referrer_id = y[2].telegram_id}}

\* SELECT parent.full_name AS parent_name, referral.full_name AS referral_name
\* FROM users AS parent JOIN users AS referral
\*      ON referral.referrer_id = parent.telegram_id
\* result.all() keeps every row of the join; referral is the key of the
\* joined referral row, which tells rows with equal names apart.
SelectAllInvitedUsers ==
    {[referral |-> z[2].telegram_id,
      parent_name |-> z[1].full_name,
      referral_name |-> z[2].full_name]
     : z \in {y \in users \X users : y[2].referrer_id = y[1].telegram_id}}

select_all_invited_users ==
    Read("select_all_invited_users", NoId, SelectAllInvitedUsers)

\* ------------------------------------------------- the filtered listing
\* A users row with the created_at the server gave it (TimestampMixin) and
\* its user_name spelled out character by character.
StampedUser(t, l, u, c) ==
    [telegram_id |-> t, full_name |-> "n1", user_name |-> u,
     language_code |-> l, referrer_id |-> NoId, created_at |-> c]

\* The absent user_name among the spelled-out ones.
NoName == <<NoStr>>

\* ILIKE compares without regard to case.
Lower(c) ==
    CASE c = "J" -> "j"
      [] c = "O" -> "o"
      [] c = "H" -> "h"
      [] c = "N" -> "n"
      [] OTHER -> c

\* str ILIKE '%pat%', for a pattern without wildcards of its own.
ILikeContains(str, pat) ==
    \E i \in 1..(Len(str) - Len(pat) + 1) :
       \A k \in 1..Len(pat) : Lower(str[i + k - 1]) = Lower(pat[k])

\* The WHERE with LIKE in the place of ILIKE.
AdvancedWhere_CaseSensitive(x) ==
    /\ x.language_code = "en" \/ x.language_code = "uk"
    /\ x.user_name # NoName
    /\ \E i \in 1..(Len(x.user_name) - 3) :
          SubSeq(x.user_name, i, i + 3) = <<"j", "o", "h", "n">>

\* WHERE (language_code = 'en' OR language_code = 'uk') AND user_name ILIKE
\* '%john%'; a NULL user_name makes the ILIKE NULL and the row is left out.
AdvancedWhere(x) ==
    /\ x.language_code = "en" \/ x.language_code = "uk"
    /\ x.user_name # NoName
    /\ ILikeContains(x.user_name, <<"j", "o", "h", "n">>)

\* GROUP BY users.telegram_id HAVING users.telegram_id > 0: the key is the
\* primary key, so every row is a group of its own.
AdvancedHaving(x) == x.telegram_id > 0

\* .limit(10)
Limit == 10

\* ORDER BY created_at DESC LIMIT n over rows: every list the server may
\* return, rows created at the same instant coming in either order.
RECURSIVE OrderByLimit(_, _)
OrderByLimit(rows, n) ==
    IF n = 0 \/ rows = {} THEN {<<>>}
    ELSE LET newest == {x \in rows : \A y \in rows : y.created_at <= x.created_at}
         IN UNION {{<<x>> \o q : q \in OrderByLimit(rows \ {x}, n - 1)} : x \in newest}

SelectAdvanced ==
    OrderByLimit({x \in users : AdvancedWhere(x) /\ AdvancedHaving(x)}, Limit)

\* Repo.get_all_users_advanced: result.scalars().all() is a list.
get_all_users_advanced ==
    \E q \in SelectAdvanced : Read("get_all_users_advanced", NoId, q)

\* The tables the listing is run on: k users that all match, created one
\* after another, and beside them any users with the ids 0 and 1.
Crowd(k) ==
    {StampedUser(1 + i, IF i % 2 = 0 THEN "en" ELSE "uk", <<"j", "o", "h", "n">>, 1 + i)
       : i \in 1..k}

HandlePool ==
    {<<"J", "o", "H", "n">>, <<"x", "j", "o", "h", "n">>, <<"j", "o", "n">>, NoName}

FreeRows(t) ==
    {{}} \cup {{StampedUser(t, l, u, c)} :
                 l \in {"en", "uk", "de"}, u \in HandlePool, c \in {1, 5, 20}}

AdvancedTables ==
    {a \cup b \cup Crowd(k) :
       a \in FreeRows(0), b \in FreeRows(1), k \in 0..MaxCrowd}

\* ------------------------------------------------------------- sessions
\* with session_pool() as session: the sessionmaker hands out a Session.
session_pool_enter ==
    /\ session.pc = "closed"
    /\ session' = [pc |-> "idle", calls |-> 0, txs |-> 0]
    /\ UNCHANGED <<schema, users, orders, products, orderproducts,
                   order_id_seq, product_id_seq, last, committed, clients, metadata>>

\* self.session.execute(stmt) of a Repo method, the step the statement's
\* action is joined with: the Session begins a transaction and the statement
\* runs in it, unseen by every other session.  A statement that raises
\* leaves the method and the block.
session_execute ==
    /\ session.pc = "idle"
    /\ session.calls < MaxCalls
    /\ session' = [pc |-> IF last'.status = "ok" THEN "pending" ELSE "raised",
                   calls |-> session.calls + 1,
                   txs |-> session.txs + 1]
    /\ UNCHANGED <<committed, clients, metadata>>

\* session.flush() in the place of commit(): the transaction stays open.
session_commit_FlushOnly ==
    /\ session.pc = "pending"
    /\ session' = [session EXCEPT !.pc = "idle"]
    /\ UNCHANGED <<schema, users, orders, products, orderproducts,
                   order_id_seq, product_id_seq, last, committed, clients, metadata>>

\* self.session.commit() of a Repo method, after which the method returns
\* what the statement gave: the transaction ends and what it did is what
\* every session sees.
session_commit ==
    /\ session.pc = "pending"
    /\ committed' = tables
    /\ session' = [session EXCEPT !.pc = "idle"]
    /\ UNCHANGED <<schema, users, orders, products, orderproducts,
                   order_id_seq, product_id_seq, last, clients, metadata>>

\* self.session.commit() raising (the connection is lost): nothing is
\* committed and the exception leaves the method and the block.
session_commit_raises ==
    /\ session.pc = "pending"
    /\ session' = [session EXCEPT !.pc = "raised"]
    /\ last' = Outcome(last.op, last.arg, "OperationalError", {}, NoEffect)
    /\ UNCHANGED <<schema, users, orders, products, orderproducts,
                   order_id_seq, product_id_seq, committed, clients, metadata>>

\* A block that commits on the way out, as with session_pool.begin().
session_pool_exit_Commits ==
    /\ session.pc \in {"idle", "raised"}
    /\ session' = Closed
    /\ committed' = tables
    /\ UNCHANGED <<schema, users, orders, products, orderproducts,
                   order_id_seq, product_id_seq, last, clients, metadata>>

\* The end of the with block, reached by its last statement or by an
\* exception: Session.__exit__ calls close(), which rolls back the open
\* transaction and gives the connection back.  A sequence value is not
\* given back.
session_pool_exit ==
    /\ session.pc \in {"idle", "raised"}
    /\ session' = Closed
    /\ users' = committed[1]
    /\ orders' = committed[2]
    /\ products' = committed[3]
    /\ orderproducts' = committed[4]
    /\ UNCHANGED <<schema, order_id_seq, product_id_seq, last, committed, clients, metadata>>

\* A block that makes one Repo call, as one step: enter, execute, commit,
\* exit (a statement that raised has changed nothing).
ScopedCall ==
    /\ session.pc = "closed"
    /\ committed' = <<users', orders', products', orderproducts'>>
    /\ UNCHANGED <<session, clients, metadata>>

\* How a Repo call is taken: g = "block" as the one call of its own scoped
\* block, g = "execute" as the execute step of a call inside an open block.
Frame(g) == IF g = "block" THEN ScopedCall ELSE session_execute

\* The five user operations, with names and handles drawn from N and H.
UserOps(N, H, g) ==
    \/ \E t \in UserIds, f \in N, l \in Langs, u \in H,
          r \in UserIds \cup {NoId} : add_user(t, f, l, u, r) /\ Frame(g)
    \/ \E t \in UserIds, f \in N, l \in Langs, u \in H,
          r \in UserIds \cup {NoId} : add_user_upsert(t, f, l, u, r) /\ Frame(g)
    \/ \E t \in UserIds, r \in UserIds \cup {NoId} :
          set_new_referrer(t, r) /\ Frame(g)
    \/ \E t \in UserIds : delete_user_by_id(t) /\ Frame(g)
    \/ cleanup_users /\ Frame(g)

ShopOps(g) ==
    \/ \E t \in UserIds : add_order(t) /\ Frame(g)
    \/ \E t \in UserIds : create_new_order_for_user(t) /\ Frame(g)
    \/ \E o \in OrderIds : delete_order(o) /\ Frame(g)
    \/ \E t \in Titles : add_product(t) /\ Frame(g)
    \/ \E ts \in Lists(Titles \cup {NoStr}) : add_bulk_products(ts) /\ Frame(g)
    \/ \E p \in ProductIds : delete_product(p) /\ Frame(g)
    \/ \E o \in OrderIds, p \in ProductIds, q \in Quantities :
          add_order_product(o, p, q) /\ Frame(g)
    \/ \E o \in OrderIds, ps \in Lists(LineInputs) :
          bulk_insert_products_into_order_id(o, ps) /\ Frame(g)

\* Every operation on all four tables; the users carry one name.
Next == UserOps({"n1"}, {NoStr}, "block") \/ ShopOps("block")

Spec == Init /\ [][Next]_vars

\* The users table alone, with every name and handle.
NextUsers == UserOps(Names, Handles, "block")

SpecUsers == Init /\ [][NextUsers]_vars

\* The tables as chapter 05 creates them (Base.metadata.create_all).
Init05 == Init /\ schema = "ch05"

Spec05 == Init05 /\ [][Next]_vars

\* The Repo calls step by step inside scoped blocks of at most MaxCalls
\* calls, on the tables of chapter 05: enter, then execute and commit for
\* every call, then exit.
NextTx ==
    \/ session_pool_enter
    \/ UserOps({"n1"}, {NoStr}, "execute")
    \/ ShopOps("execute")
    \/ session_commit
    \/ session_commit_raises
    \/ session_pool_exit

SpecTx == Init05 /\ [][NextTx]_vars

\* The steps of a block that is entered: the notebook runs the block to its
\* end, so a step that stays possible is taken.
BlockSteps ==
    \/ UserOps({"n1"}, {NoStr}, "execute")
    \/ session_commit
    \/ session_commit_raises
    \/ session_pool_exit

NextSession == session_pool_enter \/ BlockSteps

SpecSession == Init /\ [][NextSession]_vars /\ WF_vars(BlockSteps)

\* The tables chapter 04 fills (users, orders, products and line items, and
\* users deleted again) and its reads, each call in its own block.
NextQueries ==
    \/ \E t \in UserIds, u \in Handles :
          add_user_upsert(t, "n1", "en", u, NoId) /\ Frame("block")
    \/ \E t \in UserIds : add_order(t) /\ Frame("block")
    \/ \E t \in Titles : add_product(t) /\ Frame("block")
    \/ \E o \in OrderIds, p \in ProductIds, q \in Quantities :
          add_order_product(o, p, q) /\ Frame("block")
    \/ \E t \in UserIds : delete_user_by_id(t) /\ Frame("block")
    \/ \E t \in UserIds \cup {MaxUser + 1} : get_user_by_id(t) /\ Frame("block")
    \/ get_all_users /\ Frame("block")
    \/ \E t \in UserIds :
          get_all_user_orders_relationships(t) /\ Frame("block")
    \/ \E t \in UserIds :
          get_all_user_orders_no_relationships(t) /\ Frame("block")
    \/ get_count_of_products_by_user /\ Frame("block")
    \/ \E x \in Thresholds :
          get_count_of_products_greater_than_x_by_user(x) /\ Frame("block")
    \/ \E t \in UserIds \cup {MaxUser + 1} :
          get_user_total_number_of_orders(t) /\ Frame("block")
    \/ get_total_number_of_orders_by_user /\ Frame("block")

SpecQueries == Init /\ [][NextQueries]_vars

\* The first Repo of chapter 05 and the Repo of chapter 06 called against one
\* database, which holds the orders chapter 04 left in it.
NextAsync ==
    \/ \E t \in UserIds, f \in Names, l \in Langs, u \in Handles,
          r \in UserIds \cup {NoId} : add_user(t, f, l, u, r) /\ Frame("block")
    \/ get_all_users /\ Frame("block")
    \/ cleanup_users /\ Frame("block")
    \/ \E t \in UserIds, f \in Names, l \in Langs, u \in Handles,
          r \in UserIds \cup {NoId} : add_user_async(t, f, l, u, r) /\ Frame("block")
    \/ get_all_users_async /\ Frame("block")
    \/ cleanup_users_async /\ Frame("block")
    \/ \E t \in UserIds : add_order(t) /\ Frame("block")

SpecAsync == Init /\ [][NextAsync]_vars

\* -------------------------------------------------- concurrent sessions
\* The statement of Repo.add_user (chapter 04) for the values a, as PostgreSQL
\* runs it at READ COMMITTED on the committed rows us: the rows it replaces,
\* the rows it writes and returns, and how it ends.
UpsertStatement(us, a) ==
    LET old == {x \in us : x.telegram_id = a.telegram_id}
    IN IF old # {}
       THEN [status |-> "ok", over |-> old,
             write |-> {OnConflictDoUpdate(x, a.full_name, a.user_name) : x \in old}]
       ELSE IF ~ReferrerOk(us, a.telegram_id, a.referrer_id)
       THEN [status |-> "ForeignKeyViolation", over |-> {}, write |-> {}]
       ELSE [status |-> "ok", over |-> {}, write |-> {a}]

\* An insert that looks for the key among the committed rows only and waits
\* for nobody.
UpsertWaitsFor_Nobody(c, s, t) == {}

\* The sessions whose open transaction has written the row with key t.  The
\* arbiter index of ON CONFLICT (telegram_id) makes the statement of s wait
\* until each of these transactions has ended.
UpsertWaitsFor(c, s, t) ==
    {o \in Sessions \ {s} : c[o].pc = "pending" /\ c[o].call.telegram_id = t}

\* The statement of session s runs; w tells whether it had to wait.
UpsertRuns(s, a, w) ==
    LET r == UpsertStatement(users, a)
    IN /\ clients' = [clients EXCEPT ![s] =
                         [pc |-> IF r.status = "ok" THEN "pending" ELSE "raised",
                          call |-> a, over |-> r.over, write |-> r.write,
                          status |-> r.status, waited |-> w]]
       /\ last' = IF r.status = "ok" THEN last
                  ELSE Outcome("add_user_upsert", a.telegram_id, r.status, {}, NoEffect)

\* self.session.scalars(stmt) in session s: the statement is sent, and runs
\* unless it has to wait for another session.
client_scalars(s, a) ==
    /\ clients[s].pc = "idle"
    /\ IF UpsertWaitsFor(clients, s, a.telegram_id) # {}
       THEN /\ clients' = [clients EXCEPT ![s] =
                              [Idle EXCEPT !.pc = "waiting", !.call = a, !.waited = TRUE]]
            /\ UNCHANGED last
       ELSE UpsertRuns(s, a, FALSE)
    /\ UNCHANGED <<schema, users, orders, products, orderproducts,
                   order_id_seq, product_id_seq, session, committed, metadata>>

\* The transaction the statement of s waited for has ended: the statement
\* runs on what is committed now.
client_resumes(s) ==
    /\ clients[s].pc = "waiting"
    /\ UpsertWaitsFor(clients, s, clients[s].call.telegram_id) = {}
    /\ UpsertRuns(s, clients[s].call, TRUE)
    /\ UNCHANGED <<schema, users, orders, products, orderproducts,
                   order_id_seq, product_id_seq, session, committed, metadata>>

\* self.session.commit() in session s, then return result.first(): the rows
\* the statement wrote take the place of those it replaced.
client_commit(s) ==
    /\ clients[s].pc = "pending"
    /\ users' = (users \ clients[s].over) \cup clients[s].write
    /\ committed' = <<users', orders, products, orderproducts>>
    /\ last' = Outcome("add_user_upsert", clients[s].call.telegram_id, "ok",
                       ScalarsFirst(clients[s].write),
                       [NoEffect EXCEPT !.updated = UserPks(clients[s].over)])
    /\ clients' = [clients EXCEPT ![s].pc = "done"]
    /\ UNCHANGED <<schema, orders, products, orderproducts,
                   order_id_seq, product_id_seq, session, metadata>>

\* The values a call passes to insert(User).values(...).
UserValues ==
    {User(t, f, l, u, r) : t \in UserIds, f \in Names, l \in Langs, u \in Handles,
                           r \in UserIds \cup {NoId}}

\* Users stored by earlier blocks, then one add_user call in each of the two
\* sessions, their steps interleaved in every order.
NextConcurrent ==
    \/ \E t \in UserIds, f \in Names, u \in Handles :
          /\ \A s \in Sessions : clients[s].pc = "idle"
          /\ add_user_upsert(t, f, "en", u, NoId)
          /\ Frame("block")
    \/ \E s \in Sessions, a \in UserValues : client_scalars(s, a)
    \/ \E s \in Sessions : client_resumes(s)
    \/ \E s \in Sessions : client_commit(s)

SpecConcurrent == Init /\ [][NextConcurrent]_vars

\* The filtered listing of chapter 04 run on each of these tables.
InitAdvanced ==
    /\ schema = "ch04"
    /\ users \in AdvancedTables
    /\ orders = {}
    /\ products = {}
    /\ orderproducts = {}
    /\ order_id_seq = 1
    /\ product_id_seq = 1
    /\ last = Outcome("init", NoId, "ok", {}, NoEffect)
    /\ session = Closed
    /\ committed = tables
    /\ clients = [s \in Sessions |-> Idle]
    /\ metadata = {Table(schema, cls) : cls \in ClassNames(schema)}

NextAdvanced == get_all_users_advanced /\ Frame("block")

SpecAdvanced == InitAdvanced /\ [][NextAdvanced]_vars

\* Line items with more than one quantity, so that two rows of one order and
\* product can differ.
LineInputsWide == [product_id : ProductIds, quantity : 1..(MaxQty + 1)]

\* Orders, products and their line items, added one by one and in bulk, and
\* orders deleted again.
NextLines ==
    \/ \E t \in UserIds : add_user_upsert(t, "n1", "en", NoStr, NoId) /\ Frame("block")
    \/ \E t \in UserIds : add_order(t) /\ Frame("block")
    \/ \E t \in Titles : add_product(t) /\ Frame("block")
    \/ \E o \in OrderIds, l \in LineInputsWide :
          add_order_product(o, l.product_id, l.quantity) /\ Frame("block")
    \/ \E o \in OrderIds, ps \in Lists(LineInputsWide) :
          bulk_insert_products_into_order_id(o, ps) /\ Frame("block")
    \/ \E o \in OrderIds : delete_order(o) /\ Frame("block")

SpecLines == Init /\ [][NextLines]_vars

\* The user operations with every name, handle and referrer, and the
\* listing of the invited users.
NextInvited ==
    \/ UserOps(Names, Handles, "block")
    \/ select_all_invited_users /\ Frame("block")

SpecInvited == Init /\ [][NextInvited]_vars

\* The upsert with two language codes, and users deleted again.
LangsWide == {"en", "uk"}

NextUpsert ==
    \/ \E t \in UserIds, f \in Names, l \in LangsWide, u \in Handles,
          r \in UserIds \cup {NoId} : add_user_upsert(t, f, l, u, r) /\ Frame("block")
    \/ \E t \in UserIds : delete_user_by_id(t) /\ Frame("block")

SpecUpsert == Init /\ [][NextUpsert]_vars

\* ------------------------------------------------- declaring the schema
\* A class statement of the chapter is run: its Table joins Base.metadata.
declare(cls) ==
    /\ \A t \in metadata : t.class # cls
    /\ metadata' = metadata \cup {Table(schema, cls)}
    /\ UNCHANGED <<schema, users, orders, products, orderproducts,
                   order_id_seq, product_id_seq, last, session, committed, clients>>

\* Base.metadata.create_all(engine) (and Alembic reading target_metadata =
\* Base.metadata): every foreign key is resolved to its table, and one that
\* names no table of the metadata raises.
create_all ==
    /\ last' = Outcome("create_all", NoId,
                       IF Unresolved(metadata) = {} THEN "ok" ELSE "NoReferencedTableError",
                       {t.name : t \in metadata}, NoEffect)
    /\ UNCHANGED <<schema, users, orders, products, orderproducts,
                   order_id_seq, product_id_seq, session, committed, clients, metadata>>

\* A fresh Base in any of the chapters, before its classes are declared.
InitSchema ==
    /\ schema \in Chapters
    /\ metadata = {}
    /\ users = {}
    /\ orders = {}
    /\ products = {}
    /\ orderproducts = {}
    /\ order_id_seq = 1
    /\ product_id_seq = 1
    /\ last = Outcome("init", NoId, "ok", {}, NoEffect)
    /\ session = Closed
    /\ committed = tables
    /\ clients = [s \in Sessions |-> Idle]

NextSchema ==
    \/ \E cls \in ClassNames(schema) : declare(cls)
    \/ create_all

SpecSchema == InitSchema /\ [][NextSchema]_vars

\* ------------------------------------------------------------ properties
UserArgs == [t : UserIds, f : Names, l : Langs, u : Handles,
             r : UserIds \cup {NoId}]

RowsOf(us, t) == {x \in us : x.telegram_id = t}

\* C1: an upsert add_user of a telegram_id that is already present (the
\* second of two calls with the same id) leaves exactly one users row with
\* that id, and its full_name and user_name are those of this call.
C1_UpsertSecondCallWins ==
    [][\A a \in UserArgs :
         (/\ last'.op = "add_user_upsert"
          /\ last'.arg = a.t
          /\ a.t \in UserPks(users)
          /\ add_user_upsert(a.t, a.f, a.l, a.u, a.r))
         => /\ Cardinality(RowsOf(users', a.t)) = 1
            /\ \A x \in RowsOf(users', a.t) :
                  x.full_name = a.f /\ x.user_name = a.u]_vars

\* A second upsert call has replaced both the name and the handle the first
\* call stored.
C1_Witness ==
    /\ last.op = "add_user_upsert"
    /\ last.status = "ok"
    /\ last.effect.updated = {last.arg}
    /\ \E x \in RowsOf(users, last.arg) : x.full_name = "n2" /\ x.user_name = "h1"

\* C2: no add_user of the repository fails on a primary-key conflict: a call
\* for a telegram_id that is present updates the row and returns it.
C2_NeverFailsOnConflict ==
    [][\A a \in UserArgs :
         (/\ last'.arg = a.t
          /\ a.t \in UserPks(users)
          /\ \/ add_user(a.t, a.f, a.l, a.u, a.r)
             \/ add_user_upsert(a.t, a.f, a.l, a.u, a.r))
         => /\ last'.status = "ok"
            /\ last'.ret = RowsOf(users', a.t)
            /\ last'.ret # {}]_vars

\* C3: delete_user_by_id(R) removes R's row alone: every other user U with
\* U.referrer_id = R is still there with referrer_id absent, and the number
\* of users drops by exactly one when R was present.
C3_DeleteKeepsReferrals ==
    [][\A R \in UserIds :
         (last'.op = "delete_user_by_id" /\ last'.arg = R /\ delete_user_by_id(R))
         => /\ \A U \in users :
                  (U.referrer_id = R /\ U.telegram_id # R)
                  => [U EXCEPT !.referrer_id = NoId] \in users'
            /\ R \in UserPks(users)
                  => Cardinality(users') = Cardinality(users) - 1]_vars

\* C4: in every reachable state every order's user_id is the key of exactly
\* one users row, and every orderproducts row's order_id and product_id are
\* the keys of exactly one orders row and exactly one products row.
C4_ReferentialIntegrity ==
    /\ \A o \in orders :
          Cardinality({x \in users : x.telegram_id = o.user_id}) = 1
    /\ \A n \in orderproducts :
          /\ Cardinality({x \in orders : x.order_id = n.order_id}) = 1
          /\ Cardinality({x \in products : x.product_id = n.product_id}) = 1

\* A user delete has cascaded through an order to its line items while
\* another order keeps a line item.
C4_Witness ==
    /\ last.op = "delete_user_by_id"
    /\ last.effect.lines # {}
    /\ orderproducts # {}

\* C5 as stated: a referrer_id is absent or the key of an existing users row
\* other than the row itself.
C5_ReferrerIsAnotherUser ==
    \A x \in users :
       \/ x.referrer_id = NoId
       \/ /\ x.referrer_id \in UserPks(users)
          /\ x.referrer_id # x.telegram_id

\* C5 (amended): in every reachable state a referrer_id is absent or the key
\* of an existing users row, which may be the row itself.
C5_ReferrerExists ==
    \A x \in users : x.referrer_id = NoId \/ x.referrer_id \in UserPks(users)

\* set_new_referrer has made a user its own referrer.
C5_Witness ==
    /\ last.op = "set_new_referrer"
    /\ last.status = "ok"
    /\ \E x \in users : x.telegram_id = last.arg /\ x.referrer_id = x.telegram_id

\* C6: deleting an order removes exactly the orderproducts rows of that
\* order, and no product, no user and no other order.
C6_DeleteOrderCascade ==
    [][\A o \in OrderIds :
         (last'.op = "delete_order" /\ last'.arg = o /\ delete_order(o))
         => /\ orderproducts' = {x \in orderproducts : x.order_id # o}
            /\ orders' = {x \in orders : x.order_id # o}
            /\ products' = products
            /\ users' = users]_vars

\* An order with a line item was deleted while another order keeps its own.
C6_Witness ==
    /\ last.op = "delete_order"
    /\ last.effect.lines # {}
    /\ orderproducts # {}

\* C7: deleting a product that a line item references fails and leaves the
\* four tables as they were; a product without a line item is deleted.
C7_DeleteProductRestrict ==
    [][\A p \in ProductIds :
         (/\ last'.op = "delete_product"
          /\ last'.arg = p
          /\ p \in ProductPks(products)
          /\ delete_product(p))
         => IF \E x \in orderproducts : x.product_id = p
            THEN /\ last'.status = "ForeignKeyViolation"
                 /\ tables' = tables
            ELSE /\ last'.status = "ok"
                 /\ products' = {x \in products : x.product_id # p}
                 /\ UNCHANGED <<users, orders, orderproducts>>]_vars

\* The delete of a referenced product was refused.
C7_Witness ==
    /\ last.op = "delete_product"
    /\ last.status = "ForeignKeyViolation"
    /\ \E x \in orderproducts : x.product_id = last.arg

OrdersOfUser(os, t) == {x \in os : x.user_id = t}
LinesOfUser(os, ops, t) == {x \in ops : x.order_id \in OrderPks(OrdersOfUser(os, t))}

\* C8: when user A is deleted, every other user B whose referrer was A keeps
\* its row with only referrer_id changed (to absent), all of its orders and
\* all line items of those orders.
C8_DeleteReferrerFrame ==
    [][\A A \in UserIds :
         (last'.op = "delete_user_by_id" /\ last'.arg = A /\ delete_user_by_id(A))
         => \A B \in users :
               (B.referrer_id = A /\ B.telegram_id # A)
               => /\ RowsOf(users', B.telegram_id) = {[B EXCEPT !.referrer_id = NoId]}
                  /\ OrdersOfUser(orders', B.telegram_id)
                        = OrdersOfUser(orders, B.telegram_id)
                  /\ LinesOfUser(orders', orderproducts', B.telegram_id)
                        = LinesOfUser(orders, orderproducts, B.telegram_id)]_vars

\* C9: delete_user_by_id(U) succeeds, leaves no order of U and no line item
\* of such an order, whatever products they reference, and removes no product.
C9_DeleteUserCascade ==
    [][\A U \in UserIds :
         (last'.op = "delete_user_by_id" /\ last'.arg = U /\ delete_user_by_id(U))
         => /\ last'.status = "ok"
            /\ OrdersOfUser(orders', U) = {}
            /\ \A x \in orderproducts' :
                  x.order_id \notin OrderPks(OrdersOfUser(orders, U))
            /\ products' = products]_vars

\* A user delete removed an order and a line item that references a product
\* still present.
C9_Witness ==
    /\ last.op = "delete_user_by_id"
    /\ last.effect.orders # {}
    /\ \E k \in last.effect.lines : k[2] \in ProductPks(products)

\* C10 as stated: add_user with a referrer_id that is no existing user fails
\* with a foreign-key error and leaves users unchanged, on the insert path and
\* on the conflict path.
C10_BadReferrerAlwaysFails ==
    [][\A a \in UserArgs :
         (/\ last'.arg = a.t
          /\ a.r # NoId
          /\ a.r \notin UserPks(users)
          /\ \/ add_user(a.t, a.f, a.l, a.u, a.r)
             \/ add_user_upsert(a.t, a.f, a.l, a.u, a.r))
         => /\ last'.status = "ForeignKeyViolation"
            /\ users' = users]_vars

\* C10 (amended): add_user of a telegram_id that is not present, with a
\* referrer_id that is neither an existing user nor that telegram_id itself,
\* fails with a foreign-key error and leaves users unchanged.
C10_BadReferrerFailsOnInsert ==
    [][\A a \in UserArgs :
         (/\ last'.arg = a.t
          /\ a.r # NoId
          /\ a.r \notin UserPks(users) \cup {a.t}
          /\ a.t \notin UserPks(users)
          /\ \/ add_user(a.t, a.f, a.l, a.u, a.r)
             \/ add_user_upsert(a.t, a.f, a.l, a.u, a.r))
         => /\ last'.status = "ForeignKeyViolation"
            /\ users' = users]_vars

\* The upsert of a new telegram_id was refused for its referrer and stored
\* no row.
C10_Witness ==
    /\ last.op = "add_user_upsert"
    /\ last.status = "ForeignKeyViolation"
    /\ last.arg \notin UserPks(users)

\* C11: get_user_by_id(id) raises nothing and changes no table; it returns
\* the users row with that telegram_id when there is one and an absent value
\* when there is none.
C11_GetUserById ==
    [][\A t \in UserIds \cup {MaxUser + 1} :
         (last'.op = "get_user_by_id" /\ last'.arg = t /\ get_user_by_id(t))
         => /\ last'.status = "ok"
            /\ tables' = tables
            /\ IF t \in UserPks(users)
               THEN \E x \in users : x.telegram_id = t /\ last'.ret = {x}
               ELSE last'.ret = {}]_vars

\* A lookup of an id that is not in a non-empty users table returned the
\* absent value.
C11_Witness ==
    /\ last.op = "get_user_by_id"
    /\ last.status = "ok"
    /\ last.ret = {}
    /\ users # {}

\* C12 as stated: set_new_referrer for a user_id that no users row has fails,
\* and changes no row.
C12_FailsOnMissingUser ==
    [][\A t \in UserIds, r \in UserIds \cup {NoId} :
         (/\ last'.op = "set_new_referrer"
          /\ last'.arg = t
          /\ t \notin UserPks(users)
          /\ set_new_referrer(t, r))
         => /\ last'.status # "ok"
            /\ users' = users]_vars

\* C12 (amended): set_new_referrer for a user_id that no users row has raises
\* nothing, whatever the referrer_id, returns the absent value and changes no
\* table; an update that succeeds on a row returns that row, so the two
\* outcomes differ in what is returned.
C12_AbsentOnMissingUser ==
    [][\A t \in UserIds, r \in UserIds \cup {NoId} :
         (last'.op = "set_new_referrer" /\ last'.arg = t /\ set_new_referrer(t, r))
         => IF t \notin UserPks(users)
            THEN /\ last'.status = "ok"
                 /\ last'.ret = {}
                 /\ tables' = tables
            ELSE last'.status = "ok"
                 => /\ last'.ret = RowsOf(users', t)
                    /\ last'.ret # {}]_vars

\* set_new_referrer named a user that is not among the users there are and
\* returned the absent value.
C12_Witness ==
    /\ last.op = "set_new_referrer"
    /\ last.status = "ok"
    /\ last.ret = {}
    /\ last.arg \notin UserPks(users)
    /\ users # {}

\* C13: delete_user_by_id raises nothing and leaves no row with the id; for
\* an id that is absent it leaves all four tables as they were, so a second
\* delete of the same id changes nothing.
C13_DeleteIdempotent ==
    [][\A t \in UserIds :
         (last'.op = "delete_user_by_id" /\ last'.arg = t /\ delete_user_by_id(t))
         => /\ last'.status = "ok"
            /\ t \notin UserPks(users')
            /\ t \notin UserPks(users) => tables' = tables]_vars

\* A delete of an absent id succeeded while another user has an order.
C13_Witness ==
    /\ last.op = "delete_user_by_id"
    /\ last.status = "ok"
    /\ last.effect.users = {}
    /\ orders # {}

\* C14: add_bulk_products either inserts one row for every element of the
\* list, keeps the rows that were there and returns the new rows, or, when
\* an element breaks a constraint, fails and leaves the tables as they were.
C14_BulkAllOrNothing ==
    [][\A ts \in Lists(Titles \cup {NoStr}) :
         (last'.op = "add_bulk_products" /\ add_bulk_products(ts))
         => \/ /\ last'.status = "ok"
               /\ \A i \in 1..Len(ts) : ts[i] # NoStr
               /\ products \subseteq products'
               /\ products' \ products = last'.ret
               /\ Cardinality(last'.ret) = Len(ts)
               /\ \A i \in 1..Len(ts) : \E x \in last'.ret : x.title = ts[i]
            \/ /\ last'.status # "ok"
               /\ \E i \in 1..Len(ts) : ts[i] = NoStr
               /\ tables' = tables]_vars

\* A list whose second element has no title was refused and its first
\* element was not inserted.
C14_Witness ==
    /\ last.op = "add_bulk_products"
    /\ last.status = "NotNullViolation"
    /\ product_id_seq = last.arg + 2
    /\ last.arg \notin ProductPks(products)

\* C15: for every user the joined read returns the same set of (product,
\* order, user name, quantity) rows as walking user.orders, order.products
\* and line.product.
C15_JoinEqualsTraversal ==
    \A t \in UserIds : SelectRelationships(t) = LazyTraversal(t)

\* The joined read returned two rows or more, the rows the traversal gives.
C15_Witness ==
    /\ last.op = "get_all_user_orders_relationships"
    /\ Cardinality(last.ret) >= 2
    /\ last.ret = LazyTraversal(last.arg)

RECURSIVE SumOfLines(_)
SumOfLines(L) ==
    IF L = {} THEN 0
    ELSE LET l == CHOOSE x \in L : TRUE
         IN l.quantity + SumOfLines(L \ {l})

QuantityOfUser(t) == SumOfLines(LinesOfUser(orders, orderproducts, t))

C18_ThresholdAfterGrouping ==
    \A x \in Thresholds :
       /\ CountOfProductsGreaterThanX(x)
             = {r \in CountOfProductsByUser : r.quantity > x}
       /\ \A u \in users :
             LET L == LinesOfUser(orders, orderproducts, u.telegram_id)
             IN (SumOfLines(L) > x /\ \A l \in L : l.quantity <= x)
                => \E r \in CountOfProductsGreaterThanX(x) :
                      r.group = u.telegram_id /\ r.quantity = SumOfLines(L)

\* The query returned a user none of whose line items alone exceeds the
\* threshold.
C18_Witness ==
    /\ last.op = "get_count_of_products_greater_than_x_by_user"
    /\ \E r \in last.ret :
          /\ r.quantity > last.arg
          /\ \A l \in LinesOfUser(orders, orderproducts, r.group) :
                l.quantity <= last.arg

\* C19: whenever a Repo call of a block has returned, every call the block
\* has made succeeded and ran in a transaction of its own, and nothing is
\* left uncommitted: every other session sees the tables as this one does.
C19_CommittedOnReturn ==
    (session.pc = "idle" /\ session.calls > 0)
    => /\ last.status = "ok"
       /\ session.txs = session.calls
       /\ committed = tables

\* The second call of a block has returned and the line items it wrote are
\* what every session sees.
C19_Witness ==
    /\ session.pc = "idle"
    /\ session.calls = 2
    /\ last.op = "bulk_insert_products_into_order_id"
    /\ committed[4] # {}
    /\ committed[4] = orderproducts

\* C20: a block that is entered is left and its session released, whether
\* its calls return or raise, and leaving it discards what was not
\* committed: the tables are again the committed ones, which the exit does
\* not change.
C20_SessionReleased ==
    /\ [](session.pc # "closed" => <>(session.pc = "closed"))
    /\ [][(session.pc # "closed" /\ session'.pc = "closed")
          => /\ tables' = committed
             /\ committed' = committed]_vars

\* A block was left by the exception of a commit that failed, and the user
\* its add_user had inserted is gone.
C20_Witness ==
    /\ session.pc = "closed"
    /\ last.op = "add_user"
    /\ last.status = "OperationalError"
    /\ last.arg \notin UserPks(users)
    /\ users # {}

C22_UpsertAtomic ==
    \A s1, s2 \in Sessions :
       LET a1 == clients[s1].call
           a2 == clients[s2].call
       IN (/\ s1 # s2
           /\ clients[s1].pc # "idle"
           /\ clients[s2].pc # "idle"
           /\ a1.telegram_id = a2.telegram_id
           /\ ReferrerOk(users, a1.telegram_id, a1.referrer_id)
           /\ ReferrerOk(users, a2.telegram_id, a2.referrer_id))
          => /\ clients[s1].pc # "raised"
             /\ clients[s2].pc # "raised"
             /\ (clients[s1].pc = "done" /\ clients[s2].pc = "done")
                => /\ Cardinality(RowsOf(users, a1.telegram_id)) = 1
                   /\ \A x \in RowsOf(users, a1.telegram_id) :
                         \/ x.full_name = a1.full_name /\ x.user_name = a1.user_name
                         \/ x.full_name = a2.full_name /\ x.user_name = a2.user_name

\* Both calls have returned; the second was sent while the transaction of
\* the first was open and had to wait, and the two passed different names
\* and different handles.
C22_Witness ==
    \E s1, s2 \in Sessions :
       /\ clients[s1].pc = "done"
       /\ clients[s2].pc = "done"
       /\ clients[s2].waited
       /\ clients[s1].call.telegram_id = clients[s2].call.telegram_id
       /\ clients[s1].call.full_name # clients[s2].call.full_name
       /\ clients[s1].call.user_name # clients[s2].call.user_name
       /\ \E x \in RowsOf(users, clients[s2].call.telegram_id) :
             /\ x.full_name = clients[s2].call.full_name
             /\ x.user_name = clients[s2].call.user_name

\* The user names that contain 'john' in any mix of cases, and the rows the
\* claim speaks of.
JohnNames == {<<"j", "o", "h", "n">>, <<"J", "o", "H", "n">>, <<"x", "j", "o", "h", "n">>}

MatchesFilter(x) == x.language_code \in {"en", "uk"} /\ x.user_name \in JohnNames

ReturnedUsers == {last.ret[i] : i \in 1..Len(last.ret)}

\* C23 as stated: get_all_users_advanced returns at most 10 users, newest
\* first, each with language_code 'en' or 'uk' and 'john' in its user_name,
\* and while it returns fewer than 10 it leaves no such user out.
C23_ReturnsEveryMatch ==
    last.op = "get_all_users_advanced"
    => /\ Len(last.ret) <= 10
       /\ \A i, j \in 1..Len(last.ret) :
             i < j => last.ret[i].created_at >= last.ret[j].created_at
       /\ \A x \in ReturnedUsers : x \in users /\ MatchesFilter(x)
       /\ Len(last.ret) < 10
          => \A x \in users : MatchesFilter(x) => x \in ReturnedUsers

\* C23 amended: the users returned are those that match and have a
\* telegram_id greater than 0; a matching user with telegram_id 0 or less is
\* never returned.
C23_ReturnsEveryPositiveMatch ==
    last.op = "get_all_users_advanced"
    => /\ Len(last.ret) <= 10
       /\ \A i, j \in 1..Len(last.ret) :
             i < j => last.ret[i].created_at >= last.ret[j].created_at
       /\ \A x \in ReturnedUsers :
             x \in users /\ MatchesFilter(x) /\ x.telegram_id > 0
       /\ Len(last.ret) < 10
          => \A x \in users :
                (MatchesFilter(x) /\ x.telegram_id > 0) => x \in ReturnedUsers

\* The listing returned fewer than 10 users, one of them found by a name in
\* mixed case, and left out a matching user whose telegram_id is 0.
C23_Witness ==
    /\ last.op = "get_all_users_advanced"
    /\ Len(last.ret) \in 1..9
    /\ \E x \in ReturnedUsers : x.user_name = <<"J", "o", "H", "n">>
    /\ \E x \in users \ ReturnedUsers : MatchesFilter(x) /\ x.telegram_id = 0

\* The list ps names a product the order already has a line item for, or
\* names one product twice.
RepeatsLine(order_id, ps) ==
    \/ \E i \in 1..Len(ps) : \E x \in orderproducts :
          x.order_id = order_id /\ x.product_id = ps[i].product_id
    \/ \E i, j \in 1..Len(ps) : i # j /\ ps[i].product_id = ps[j].product_id

\* C24: add_order_product for an (order_id, product_id) that has a line item,
\* and bulk_insert_products_into_order_id with a list that names such a
\* product or repeats one, end in an error and add no row; and in every
\* reachable state an order has at most one line item per product.
C24_OneLinePerProduct ==
    /\ [][\A o \in OrderIds :
            /\ \A l \in LineInputsWide :
                  (/\ last'.op = "add_order_product"
                   /\ last'.arg = o
                   /\ RepeatsLine(o, <<l>>)
                   /\ add_order_product(o, l.product_id, l.quantity))
                  => last'.status # "ok" /\ tables' = tables
            /\ \A ps \in Lists(LineInputsWide) :
                  (/\ last'.op = "bulk_insert_products_into_order_id"
                   /\ last'.arg = o
                   /\ RepeatsLine(o, ps)
                   /\ bulk_insert_products_into_order_id(o, ps))
                  => last'.status # "ok" /\ tables' = tables]_vars
    /\ [](\A x, y \in orderproducts :
            (x.order_id = y.order_id /\ x.product_id = y.product_id) => x = y)

\* A call that would have given an order a second line item for a product
\* it has, with another quantity, raised; the order has two line items.
C24_Witness ==
    /\ last.op \in {"add_order_product", "bulk_insert_products_into_order_id"}
    /\ last.status = "UniqueViolation"
    /\ \E x, y \in orderproducts :
          /\ x.order_id = last.arg
          /\ y.order_id = last.arg
          /\ x.product_id # y.product_id
          /\ x.quantity # y.quantity

\* C25: for every user with at least one order, the one row that
\* get_total_number_of_orders_by_user has for the user carries the count that
\* get_user_total_number_of_orders gives for it, and both are the number of
\* orders whose user_id is the user's; for a user without orders
\* get_user_total_number_of_orders gives the value 0, not an absent one.
C25_OrderCountsAgree ==
    \A u \in users :
       LET t == u.telegram_id
           n == Cardinality(OrdersOfUser(orders, t))
           rows == {r \in TotalNumberOfOrdersByUser : r[2] = t}
       IN /\ Scalar(UserTotalNumberOfOrders(t)) = {n}
          /\ n > 0 => rows = {<<n, t>>}

\* The by-user listing was read with a user that has two orders in it while
\* another user has none.
C25_Witness ==
    /\ last.op = "get_total_number_of_orders_by_user"
    /\ \E r \in last.ret : r[1] = 2
    /\ \E u \in users : OrdersOfUser(orders, u.telegram_id) = {}

\* C26: select_all_invited_users has exactly one row for every user whose
\* referrer_id is not absent, with the user's full_name as referral_name and
\* the full_name of the user it refers to as parent_name; it has no row for a
\* user without a referrer, and no other row.
C26_OneRowPerInvitedUser ==
    /\ \A u \in users :
          LET rows == {r \in SelectAllInvitedUsers : r.referral = u.telegram_id}
          IN IF u.referrer_id = NoId
             THEN rows = {}
             ELSE /\ Cardinality(rows) = 1
                  /\ \A r \in rows :
                        /\ r.referral_name = u.full_name
                        /\ \E p \in users : /\ p.telegram_id = u.referrer_id
                                            /\ r.parent_name = p.full_name
    /\ \A r \in SelectAllInvitedUsers : r.referral \in UserPks(users)

\* The listing was read with one invited user, whose name differs from its
\* referrer's, and the referrer itself without a referrer.
C26_Witness ==
    /\ last.op = "select_all_invited_users"
    /\ Cardinality(last.ret) = 1
    /\ \E r \in last.ret : r.parent_name # r.referral_name
    /\ Cardinality(users) = 2

\* C27: a create_new_order_for_user or add_order call for a stored user
\* succeeds, adds exactly one order with that user_id and an order_id no
\* stored order has, and returns that order_id (add_order: the order); a call
\* for a user_id that is no stored user fails and the orders stay as they
\* were.
C27_NewOrderId ==
    [][\A t \in UserIds :
         (/\ last'.op \in {"add_order", "create_new_order_for_user"}
          /\ last'.arg = t
          /\ add_order(t) \/ create_new_order_for_user(t))
         => IF t \in UserPks(users)
            THEN /\ last'.status = "ok"
                 /\ \E o \in orders' :
                       /\ orders' \ orders = {o}
                       /\ orders \subseteq orders'
                       /\ o.order_id \notin OrderPks(orders)
                       /\ o.user_id = t
                       /\ last'.ret = IF last'.op = "add_order"
                                      THEN {o} ELSE {o.order_id}
            ELSE /\ last'.status # "ok"
                 /\ tables' = tables]_vars

\* An order was created after an earlier order had been deleted, and it is
\* stored under an id that is neither the deleted one nor a stored one.
C27_Witness ==
    /\ last.op = "create_new_order_for_user"
    /\ last.status = "ok"
    /\ last.ret = {2}
    /\ OrderPks(orders) = {2}

\* C28: an upsert add_user for a telegram_id that is stored leaves the row's
\* language_code and referrer_id as they were, whatever the call passes for
\* them, stores no new row and changes no row of another user and no other
\* table.
C28_UpsertKeepsOtherColumns ==
    [][\A t \in UserIds, f \in Names, l \in LangsWide, u \in Handles,
          r \in UserIds \cup {NoId} :
         (/\ last'.op = "add_user_upsert"
          /\ last'.arg = t
          /\ t \in UserPks(users)
          /\ add_user_upsert(t, f, l, u, r))
         => /\ \A x \in RowsOf(users, t) : \E y \in RowsOf(users', t) :
                  /\ y.language_code = x.language_code
                  /\ y.referrer_id = x.referrer_id
            /\ Cardinality(users') = Cardinality(users)
            /\ \A z \in users : z.telegram_id # t => z \in users'
            /\ <<orders', products', orderproducts'>> = <<orders, products, orderproducts>>]_vars

\* An upsert has updated a stored row that has the language code 'uk' and a
\* referrer, while the other stored user has 'en' and none.
C28_Witness ==
    /\ last.op = "add_user_upsert"
    /\ last.effect.updated = {last.arg}
    /\ \E x \in RowsOf(users, last.arg) :
          x.language_code = "uk" /\ x.referrer_id \notin {NoId, x.telegram_id}
    /\ \E z \in users : z.telegram_id # last.arg /\ z.language_code = "en"

\* C29: every cleanup_users call succeeds, whatever the users refer to and
\* whatever their orders hold, and leaves users, orders and orderproducts
\* empty and the products as they were.
C29_CleanupEmptiesAll ==
    [][(last'.op = "cleanup_users" /\ cleanup_users)
       => /\ last'.status = "ok"
          /\ users' = {}
          /\ orders' = {}
          /\ orderproducts' = {}
          /\ products' = products]_vars

\* A cleanup removed two users, an order and a line item whose product is
\* still stored.
C29_Witness ==
    /\ last.op = "cleanup_users"
    /\ Cardinality(last.effect.users) = 2
    /\ last.effect.orders # {}
    /\ \E k \in last.effect.lines : k[2] \in ProductPks(products)
    /\ users = {} /\ orderproducts = {}

\* C30: in every chapter, once all its classes are declared, each foreign
\* key names a table of the chapter's metadata: the name the class of that
\* table got from TableNameMixin or from its __tablename__.
C30_ForeignKeysNameTables ==
    {t.class : t \in metadata} = ClassNames(schema)
    => \A t \in metadata : \A fk \in t.foreign_keys :
          \E r \in metadata : r.name = ReferredTable(fk)

====
